---- MODULE Spec2Model ----
(***************************************************************************)
(* Federated round orchestration of src/ai/models/federated_learning.py:   *)
(* client selection, local training, FedAvg aggregation, redistribution,   *)
(* evaluation and the final checkpoint.                                     *)
(*                                                                         *)
(* Model objects live in a heap of parameter stores, so that sharing one   *)
(* model object between server and clients is expressible.  A parameter    *)
(* store maps a key to a tensor; a tensor is a shape and one fill value.   *)
(* Floats are exact rationals <<numerator, denominator>> in lowest terms:  *)
(* floating-point rounding is not modelled.                                *)
(***************************************************************************)
EXTENDS Integers, Sequences, FiniteSets, TLC

VARIABLES
    pc,                   \* position of main() / of the call under test
    args,                 \* parsed command line (argparse namespace)
    round,                \* loop variable of the round loop
    heap,                 \* model object -> parameter store
    clients,              \* client id -> its model object (client.model)
    data_loader_len,      \* client id -> len(client.data_loader)
    selected_client_ids,  \* result of select_clients of the current round
    client_updates,       \* state dicts returned by train (model objects)
    client_weights,       \* weights handed to aggregate_models ({} = None)
    global_losses,        \* per-round evaluation results
    checkpoint,           \* content of the output file ({} = not written)
    indices,              \* split_data called directly: the shuffled index
                          \* list of each call made so far
    client_data,          \* split_data called directly: the list returned
                          \* by each call made so far
    loaded,               \* load_model called directly: the model objects
                          \* it has returned
    monitor,              \* the fields of an APIMonitor
    trainer,              \* the fields of a ModelTrainer and the locals of
                          \* its train call
    err                   \* exception that ended the run or the call

vars == <<pc, args, round, heap, clients, data_loader_len, selected_client_ids,
          client_updates, client_weights, global_losses, checkpoint, indices,
          client_data, loaded, monitor, trainer, err>>

(* ------------------------------ bounds -------------------------------- *)
MaxClients == 3
MaxRounds == 2
MaxUpdates == 2
MaxSelectClients == 5
MaxBatches == 2
MaxSplitClients == 4
MaxCallers == 2
MaxThreads == 3
MaxTrainCalls == 2
MaxEpochs == 2
MaxPatience == 2
MaxLoss == 2
MaxParam == 1

(* ----------------------------- rationals ------------------------------ *)
Abs(x) == IF x < 0 THEN -x ELSE x

Min(a, b) == IF a < b THEN a ELSE b

Max(a, b) == IF a > b THEN a ELSE b

RECURSIVE GCD(_, _)
GCD(a, b) == IF b = 0 THEN a ELSE GCD(b, a % b)

\* the rational n/d (d > 0) in lowest terms
Rat(n, d) == LET g == GCD(Abs(n), d) IN <<n \div g, d \div g>>

RAdd(x, y) == Rat(x[1] * y[2] + y[1] * x[2], x[2] * y[2])

RMul(x, y) == Rat(x[1] * y[1], x[2] * y[2])

RInt(n) == <<n, 1>>

RECURSIVE RSum(_)
RSum(s) == IF s = <<>> THEN RInt(0) ELSE RAdd(Head(s), RSum(Tail(s)))

(* ------------------------------ tensors ------------------------------- *)
Tensor(s, v) == [shape |-> s, val |-> v]

\* tensor * float
Scale(t, w) == Tensor(t.shape, RMul(t.val, w))

\* shapes that elementwise addition accepts (broadcasting of 1-d tensors)
Broadcastable(s1, s2) == s1 = s2 \/ s1 = 1 \/ s2 = 1

\* tensor + tensor, for broadcastable shapes
TensorAdd(t1, t2) == Tensor(Max(t1.shape, t2.shape), RAdd(t1.val, t2.val))

(* --------------------------- SimpleModel ------------------------------ *)
\* the keys of SimpleModel's state dict, in state-dict order, and an
\* additional key that no SimpleModel has
KeyOrder == <<"w", "b", "x">>

ModelKeys == {"w", "b"}

ModelShape == [w |-> 2, b |-> 1]

\* a freshly constructed SimpleModel
SimpleModel == [k \in ModelKeys |-> Tensor(ModelShape[k], RInt(1))]

\* server.global_model: the model object the server holds
GlobalRef == 0

(* ------------------------ FederatedServer ----------------------------- *)
\* int(x) of a float: truncation towards zero
IntOf(r) == IF r[1] >= 0 THEN r[1] \div r[2] ELSE -((-r[1]) \div r[2])

\* num_selected without the floor of one client
NumSelectedNoFloor(n, f) == IntOf(RMul(RInt(n), f))

\* num_selected of select_clients
NumSelected(n, f) == Max(1, IntOf(RMul(RInt(n), f)))

\* random.sample(range(n), k): every list it can return; none when it
\* raises ValueError (k negative or larger than the population)
RandomSample(n, k) ==
    IF k < 0 \/ k > Max(n, 0) THEN {}
    ELSE {s \in [1..k -> 0..(n - 1)] : \A i, j \in 1..k : i # j => s[i] # s[j]}

\* the lists select_clients can return; none when it raises
select_clients(n, f) == RandomSample(n, NumSelected(n, f))

\* default weights of one per update instead of 1/len
DefaultWeightsOnes(n) == [i \in 1..n |-> RInt(1)]

\* the weights aggregate_models uses when client_weights is None
DefaultWeights(n) == [i \in 1..n |-> Rat(1, n)]

\* sum(client_dict[key] * weight for ... in zip(...)) after the first i
\* pairs: sum() starts from the int 0 (zero), a missing key raises KeyError
\* when its term is computed, shapes that do not broadcast raise
\* RuntimeError when the term is added
RECURSIVE SumPairs(_, _, _, _)
SumPairs(key, updates, weights, i) ==
    IF i = 0 THEN [err |-> "none", zero |-> TRUE, t |-> Tensor(1, RInt(0))]
    ELSE LET prev == SumPairs(key, updates, weights, i - 1) IN
         IF prev.err # "none" THEN prev
         ELSE IF key \notin DOMAIN updates[i] THEN [prev EXCEPT !.err = "KeyError"]
         ELSE LET term == Scale(updates[i][key], weights[i]) IN
              IF prev.zero THEN [err |-> "none", zero |-> FALSE, t |-> term]
              ELSE IF ~Broadcastable(prev.t.shape, term.shape)
                   THEN [prev EXCEPT !.err = "RuntimeError"]
              ELSE [err |-> "none", zero |-> FALSE, t |-> TensorAdd(prev.t, term)]

\* a load with strict=False: the same copying, nothing raised
load_state_dict_lenient(model, sd) ==
    [err |-> "none",
     store |-> [k \in DOMAIN model |->
                  IF k \in DOMAIN sd /\ sd[k].shape = model[k].shape
                  THEN sd[k] ELSE model[k]]]

\* model.load_state_dict(sd), strict: every key of the model that sd holds
\* with the model's shape is copied; the missing, unexpected and mismatched
\* keys are collected and raised as one RuntimeError after the copying
load_state_dict(model, sd) ==
    LET both == DOMAIN model \cap DOMAIN sd
        mismatched == {k \in both : sd[k].shape # model[k].shape}
        missing == DOMAIN model \ DOMAIN sd
        unexpected == DOMAIN sd \ DOMAIN model
    IN  [err |-> IF mismatched \cup missing \cup unexpected = {}
                 THEN "none" ELSE "RuntimeError",
         store |-> [k \in DOMAIN model |->
                      IF k \in both \ mismatched THEN sd[k] ELSE model[k]]]

\* aggregate_models(client_updates, client_weights) on a server whose global
\* model holds `model`: the exception raised and the global model's store
\* afterwards.  weights_opt is {} for None and {list} for a list.
aggregate_models(updates, weights_opt, model) ==
    LET n == Len(updates)
        w == IF weights_opt = {} THEN DefaultWeights(n)
             ELSE CHOOSE x \in weights_opt : TRUE
        m == Min(n, Len(w))
    IN  IF n = 0 THEN [err |-> "IndexError", store |-> model]
        ELSE LET keys0 == DOMAIN updates[1]
                 sums == [k \in keys0 |-> SumPairs(k, updates, w, m)]
                 bad == {i \in 1..Len(KeyOrder) :
                            /\ KeyOrder[i] \in keys0
                            /\ sums[KeyOrder[i]].err # "none"}
             IN  IF bad # {}
                 THEN [err |-> sums[KeyOrder[CHOOSE i \in bad :
                                      \A j \in bad : i <= j]].err,
                       store |-> model]
                 ELSE IF m = 0 THEN [err |-> "RuntimeError", store |-> model]
                 ELSE load_state_dict(model, [k \in keys0 |-> sums[k].t])

(* ------------------------------ Client -------------------------------- *)
\* a client that keeps the global model object instead of a deep copy
ClientModelShared(i, g) == g

\* Client.__init__: the model object of client i built from the global
\* model object g (copy.deepcopy: an object of its own)
ClientModel(i, g) == i + 1

\* the optimizer steps of one train call, seen from outside: parameter k
\* moves by d[k]
Trained(store, d) ==
    [k \in DOMAIN store |->
        Tensor(store[k].shape, RAdd(store[k].val, RInt(d[k])))]

\* the exception Client.train raises, by the divisions of its loss averages
TrainError(epochs, loader_len) ==
    IF epochs >= 1 /\ loader_len = 0 THEN "ZeroDivisionError"
    ELSE IF epochs = 0 THEN "ZeroDivisionError"
    ELSE "none"

\* the parameter movements the optimizer steps of one train call can make
Deltas == {[w |-> 1, b |-> 1], [w |-> 2, b |-> 1]}

\* the movements of a train call that returns: without an epoch or without
\* a batch no optimizer step is made
TrainDeltas(epochs, loader_len) ==
    IF epochs >= 1 /\ loader_len >= 1 THEN Deltas
    ELSE {[k \in ModelKeys |-> 0]}

(* ----------------------------- split_data ----------------------------- *)
\* s[a:b] of a Python list
PySlice(s, a, b) == SubSeq(s, a + 1, Min(b, Len(s)))

Range(s) == {s[i] : i \in 1..Len(s)}

\* list(range(n))
Iota(n) == [i \in 1..n |-> i - 1]

\* sorted(l) of a list, equal values kept
RECURSIVE Sorted(_)
Sorted(l) ==
    IF l = <<>> THEN <<>>
    ELSE LET lo == CHOOSE i \in 1..Len(l) : \A j \in 1..Len(l) : l[i] <= l[j]
         IN  <<l[lo]>> \o Sorted(SubSeq(l, 1, lo - 1) \o SubSeq(l, lo + 1, Len(l)))

\* set(labels), as a list: labels that hash by value (ints) are kept once
\* each; the labels of a TensorDataset are tensor objects, which hash by
\* identity, so every one of them is kept
SetOf(labels, by_identity) ==
    IF by_identity THEN labels
    ELSE LET vals == Range(labels)
             First(v) == CHOOSE i \in 1..Len(labels) :
                            labels[i] = v /\ \A j \in 1..(i - 1) : labels[j] # v
             Keep(i) == \E v \in vals : First(v) = i
         IN  [k \in 1..Cardinality(vals) |->
                 labels[CHOOSE i \in 1..Len(labels) :
                           /\ Keep(i)
                           /\ Cardinality({j \in 1..i : Keep(j)}) = k]]

\* the orders random.shuffle can leave a list in
Shuffles(s) ==
    {[i \in 1..Len(s) |-> s[p[i]]] :
        p \in {q \in [1..Len(s) -> 1..Len(s)] : Range(q) = 1..Len(s)}}

\* a chunk size rounded up instead of down
ChunkSizeCeil(data_size, num_clients) ==
    (data_size + num_clients - 1) \div num_clients

\* chunk_size of the iid split
ChunkSize(data_size, num_clients) == data_size \div num_clients

\* every chunk starting at the head of the index list
StartIdxZero(i, chunk_size) == 0

\* start_idx of chunk i
StartIdx(i, chunk_size) == i * chunk_size

\* a last chunk cut like the others
EndIdxNoRemainder(i, num_clients, chunk_size, data_size) == (i + 1) * chunk_size

\* end_idx of chunk i: the last chunk runs to the end of the index list
EndIdx(i, num_clients, chunk_size, data_size) ==
    IF i < num_clients - 1 THEN (i + 1) * chunk_size ELSE data_size

\* client id -> indices of its Subset; labels is the dataset's label column,
\* by_identity tells whether the labels are tensors, and shuffled is the
\* shuffled index list.  range(num_clients) is empty for num_clients <= 0,
\* and a method other than the two known ones leaves client_data empty.
split_data(labels, by_identity, shuffled, num_clients, method) ==
    LET data_size == Len(labels) IN
    IF method = "iid"
    THEN [i \in 0..(num_clients - 1) |->
             LET chunk_size == ChunkSize(data_size, num_clients) IN
             PySlice(shuffled, StartIdx(i, chunk_size),
                     EndIdx(i, num_clients, chunk_size, data_size))]
    ELSE IF method = "non_iid"
    THEN LET unique_labels == Sorted(SetOf(labels, by_identity))
             num_labels_per_client == Len(unique_labels) \div num_clients
         IN  [i \in 0..(num_clients - 1) |->
                 LET client_labels ==
                         Range(PySlice(unique_labels, i * num_labels_per_client,
                                       (i + 1) * num_labels_per_client))
                     Mine(idx) == labels[idx + 1] \in client_labels
                 IN  SelectSeq(Iota(data_size), Mine)]
    ELSE <<>>

\* the exception split_data raises: both methods divide by num_clients
SplitError(num_clients, method) ==
    IF method \in {"iid", "non_iid"} /\ num_clients = 0
    THEN "ZeroDivisionError"
    ELSE "none"

\* default of --batch-size
BatchSize == 64

\* len(DataLoader(subset, batch_size))
LoaderLen(subset) == (Len(subset) + BatchSize - 1) \div BatchSize

(* ------------------------------- main --------------------------------- *)
\* the values of --client-fraction tried
Fractions == {<<1, 3>>, <<1, 2>>, <<1, 1>>, <<3, 2>>}

\* the values of --local-epochs tried
LocalEpochs == {0, 1}

\* the label columns of full_dataset tried (scaled down from 5000 examples
\* with labels drawn from 10 classes)
Datasets == {<<0, 1>>, <<0, 1, 1, 0>>, <<0, 1, 2, 3>>}

\* the weight main appends for every trained client
ClientWeight == RInt(1)

Clients == DOMAIN clients

\* local_params of client c
LocalParams(c) == heap[clients[c]]

GlobalParams == heap[GlobalRef]

\* state after main's set-up: data split, loaders, global model, server,
\* clients.  A loader over an empty Subset has length 0; with shuffle=True
\* its construction raises ValueError in the torch versions whose
\* RandomSampler refuses an empty data source, which ends main there.
Init ==
    /\ args \in [num_clients : 1..MaxClients, client_fraction : Fractions,
                 rounds : 0..MaxRounds, local_epochs : LocalEpochs,
                 data_split : {"iid", "non_iid"}]
    /\ \E labels \in Datasets : \E shuffled \in Shuffles(Iota(Len(labels))) :
          LET client_datasets ==
                  split_data(labels, TRUE, shuffled, args.num_clients,
                             args.data_split)
          IN  /\ data_loader_len = [i \in 0..(args.num_clients - 1) |->
                                       LoaderLen(client_datasets[i])]
              /\ \/ pc = "idle" /\ err = "none"
                 \/ /\ \E i \in 0..(args.num_clients - 1) :
                          Len(client_datasets[i]) = 0
                    /\ pc = "error"
                    /\ err = "ValueError"
    /\ IF pc = "error"
       THEN clients = <<>> /\ heap = <<>>
       ELSE /\ clients = [i \in 0..(args.num_clients - 1) |->
                            ClientModel(i, GlobalRef)]
            /\ heap = [o \in {GlobalRef} \cup {ClientModel(i, GlobalRef) :
                                                  i \in 0..(args.num_clients - 1)}
                         |-> SimpleModel]
    /\ round = 0
    /\ selected_client_ids = <<>>
    /\ client_updates = <<>>
    /\ client_weights = <<>>
    /\ global_losses = <<>>
    /\ checkpoint = {}
    /\ indices = <<>>
    /\ client_data = <<>>
    /\ loaded = <<>>
    /\ monitor = <<>>
    /\ trainer = <<>>

\* a round loop that makes one pass more
RoundLoopDoneLate == round > args.rounds

\* a round loop left after its first pass
RoundLoopDoneEarly == round >= Min(1, args.rounds)

\* the round loop has run args.rounds times
RoundLoopDone == round >= args.rounds

\* a training loop left after its first pass
TrainLoopDoneEarly == Len(client_updates) >= 1

\* the training loop has gone through selected_clients
TrainLoopDone == Len(client_updates) >= Len(selected_client_ids)

\* start of a round: select_clients, empty update and weight lists
Select ==
    /\ pc = "idle"
    /\ ~RoundLoopDone
    /\ LET lists == select_clients(args.num_clients, args.client_fraction) IN
       IF lists = {}
       THEN /\ pc' = "error"
            /\ err' = "ValueError"
            /\ UNCHANGED <<selected_client_ids, client_updates, client_weights>>
       ELSE /\ \E s \in lists : selected_client_ids' = s
            /\ client_updates' = <<>>
            /\ client_weights' = <<>>
            /\ pc' = "train"
            /\ err' = err
    /\ UNCHANGED <<indices, client_data, loaded, monitor, trainer>>
    /\ UNCHANGED <<args, round, heap, clients, data_loader_len, global_losses,
                   checkpoint>>

\* one pass of the training loop: the next selected client trains its own
\* model and its state dict and weight are appended
Train ==
    /\ pc = "train"
    /\ ~TrainLoopDone
    /\ LET c == selected_client_ids[Len(client_updates) + 1]
           e == TrainError(args.local_epochs, data_loader_len[c])
       IN  IF e # "none"
           THEN /\ pc' = "error"
                /\ err' = e
                /\ UNCHANGED <<heap, client_updates, client_weights>>
           ELSE /\ \E d \in TrainDeltas(args.local_epochs, data_loader_len[c]) :
                      heap' = [heap EXCEPT ![clients[c]] = Trained(@, d)]
                /\ client_updates' = Append(client_updates, clients[c])
                /\ client_weights' = Append(client_weights, ClientWeight)
                /\ UNCHANGED <<pc, err>>
    /\ UNCHANGED <<indices, client_data, loaded, monitor, trainer>>
    /\ UNCHANGED <<args, round, clients, data_loader_len, selected_client_ids,
                   global_losses, checkpoint>>

\* the state dicts behind a list of model objects
StateDicts(refs) == [i \in 1..Len(refs) |-> heap[refs[i]]]

\* server.aggregate_models(client_updates, client_weights)
Aggregate ==
    /\ pc = "train"
    /\ TrainLoopDone
    /\ LET r == aggregate_models(StateDicts(client_updates), {client_weights},
                                 GlobalParams)
       IN  /\ heap' = [heap EXCEPT ![GlobalRef] = r.store]
           /\ err' = r.err
           /\ pc' = IF r.err = "none" THEN "sync" ELSE "error"
    /\ UNCHANGED <<indices, client_data, loaded, monitor, trainer>>
    /\ UNCHANGED <<args, round, clients, data_loader_len, selected_client_ids,
                   client_updates, client_weights, global_losses, checkpoint>>

\* a distribution loop over the selected clients only
SyncTargetsSelected == {selected_client_ids[i] : i \in 1..Len(selected_client_ids)}

\* the clients the distribution loop goes through
SyncTargets == Clients

\* a distribution that hands every client the global model object itself
SyncedModelShared(c) == GlobalRef

\* the model object of client c after the distribution loop, which loads
\* into the client's own model
SyncedModel(c) == clients[c]

\* distribution of the global model to the clients
Sync ==
    /\ pc = "sync"
    /\ clients' = [c \in Clients |->
                     IF c \in SyncTargets THEN SyncedModel(c) ELSE clients[c]]
    /\ LET loads == [c \in SyncTargets |->
                        load_state_dict(heap[clients'[c]], GlobalParams)]
       IN  /\ heap' = [o \in DOMAIN heap |->
                         IF \E c \in SyncTargets : clients'[c] = o
                         THEN loads[CHOOSE c \in SyncTargets : clients'[c] = o].store
                         ELSE heap[o]]
           /\ IF \E c \in SyncTargets : loads[c].err # "none"
              THEN pc' = "error" /\ err' = "RuntimeError"
              ELSE pc' = "evaluate" /\ err' = err
    /\ UNCHANGED <<indices, client_data, loaded, monitor, trainer>>
    /\ UNCHANGED <<args, round, data_loader_len, selected_client_ids,
                   client_updates, client_weights, global_losses, checkpoint>>

\* an evaluation of the parameters the global model had before the round
EvaluatedStoreBeforeRound ==
    IF round = 0 THEN SimpleModel ELSE global_losses[round]

\* the parameters evaluate_global_model scores: those of server.global_model
\* at the time of the call
EvaluatedStore == GlobalParams

\* a metric list that keeps the latest record only
ReplaceRecord(history, record) == <<record>>

\* global_losses.append (with it global_accuracies and inference_times,
\* which are appended in the same three lines)
AppendRecord(history, record) == Append(history, record)

\* evaluate_global_model and the metric lists; the loss is kept as the
\* parameters it was computed from
Evaluate ==
    /\ pc = "evaluate"
    /\ global_losses' = AppendRecord(global_losses, EvaluatedStore)
    /\ round' = round + 1
    /\ pc' = "idle"
    /\ UNCHANGED <<indices, client_data, loaded, monitor, trainer>>
    /\ UNCHANGED <<args, heap, clients, data_loader_len, selected_client_ids,
                   client_updates, client_weights, checkpoint, err>>

\* save_model after the round loop: torch.save writes the file or raises
SaveModel ==
    /\ pc = "idle"
    /\ RoundLoopDone
    /\ \/ checkpoint' = {GlobalParams} /\ pc' = "done" /\ err' = err
       \/ checkpoint' = checkpoint /\ pc' = "error" /\ err' = "IOError"
    /\ UNCHANGED <<indices, client_data, loaded, monitor, trainer>>
    /\ UNCHANGED <<args, round, heap, clients, data_loader_len,
                   selected_client_ids, client_updates, client_weights,
                   global_losses>>

Next == Select \/ Train \/ Aggregate \/ Sync \/ Evaluate \/ SaveModel

Spec == Init /\ [][Next]_vars

\* the call of select_clients comes to an end: it returns or raises
SelectEnds == pc = "idle" /\ ~RoundLoopDone /\ pc' \in {"train", "error"}

\* the call of aggregate_models comes to an end: it returns or raises
AggregateEnds == pc = "train" /\ TrainLoopDone /\ pc' \in {"sync", "error"}

\* main run as a process that is not held up for ever: a step that can be
\* taken is taken, and the calls of select_clients and aggregate_models,
\* which loop over finite lists, come to an end
SpecLive ==
    /\ Init
    /\ [][Next]_vars
    /\ WF_vars(Train \/ Sync \/ Evaluate \/ SaveModel)
    /\ WF_pc(SelectEnds)
    /\ WF_pc(AggregateEnds)

(* ----------------------- main stopped from outside --------------------- *)
\* the process is interrupted or killed between two steps of main: no
\* handler of main runs (line 291 catches Exception only), the objects are
\* left as they are
Stop ==
    /\ pc \in {"idle", "train", "sync", "evaluate"}
    /\ pc' = "stopped"
    /\ err' = "KeyboardInterrupt"
    /\ UNCHANGED <<indices, client_data, loaded, monitor, trainer>>
    /\ UNCHANGED <<args, round, heap, clients, data_loader_len,
                   selected_client_ids, client_updates, client_weights,
                   global_losses, checkpoint>>

NextStop == Next \/ Stop

SpecStop == Init /\ [][NextStop]_vars

(* ------------------- select_clients called directly ------------------- *)
\* the fractions a FederatedServer is built with
SelectFractions ==
    {<<-1, 2>>, <<0, 1>>, <<1, 5>>, <<1, 3>>, <<1, 2>>, <<2, 3>>, <<1, 1>>,
     <<3, 2>>}

\* a FederatedServer(global_model, num_clients, client_fraction) before a
\* call of select_clients
InitSelect ==
    /\ args \in [num_clients : 0..MaxSelectClients,
                 client_fraction : SelectFractions]
    /\ pc = "call_select"
    /\ heap = [o \in {GlobalRef} |-> SimpleModel]
    /\ clients = <<>>
    /\ data_loader_len = <<>>
    /\ round = 0
    /\ selected_client_ids = <<>>
    /\ client_updates = <<>>
    /\ client_weights = <<>>
    /\ global_losses = <<>>
    /\ checkpoint = {}
    /\ indices = <<>>
    /\ client_data = <<>>
    /\ loaded = <<>>
    /\ monitor = <<>>
    /\ trainer = <<>>
    /\ err = "none"

\* server.select_clients()
SelectCall ==
    /\ pc = "call_select"
    /\ LET lists == select_clients(args.num_clients, args.client_fraction) IN
       IF lists = {}
       THEN /\ pc' = "raised"
            /\ err' = "ValueError"
            /\ UNCHANGED selected_client_ids
       ELSE /\ \E s \in lists : selected_client_ids' = s
            /\ pc' = "returned"
            /\ err' = err
    /\ UNCHANGED <<indices, client_data, loaded, monitor, trainer>>
    /\ UNCHANGED <<args, round, heap, clients, data_loader_len, client_updates,
                   client_weights, global_losses, checkpoint>>

NextSelect == SelectCall

SpecSelect == InitSelect /\ [][NextSelect]_vars

(* ------------------ aggregate_models called directly ------------------ *)
\* the parameter values of the client updates tried
UpdateVals == {2, 4}

\* the key sets and shapes of "w" of the client updates tried: SimpleModel's
\* own, two other shapes, a key missing, a key too many
UpdateLayouts ==
    {<<{"w", "b"}, 2>>, <<{"w", "b"}, 1>>, <<{"w", "b"}, 3>>, <<{"w"}, 2>>,
     <<{"w", "b", "x"}, 2>>}

UpdateStore(layout, v) ==
    [k \in layout[1] |-> Tensor(IF k = "w" THEN layout[2] ELSE 1, RInt(v))]

UpdateStores == {UpdateStore(l, v) : l \in UpdateLayouts, v \in UpdateVals}

\* the weights tried
WeightVals == {Rat(1, k) : k \in 1..MaxUpdates}

WeightLists == UNION {[1..l -> WeightVals] : l \in 1..MaxUpdates}

\* a FederatedServer on a fresh SimpleModel before a call of
\* aggregate_models(client_updates, client_weights); the updates are the
\* objects 1..m of the heap
InitAggregate ==
    /\ \E m \in 0..MaxUpdates : \E updates \in [1..m -> UpdateStores] :
          /\ heap = [o \in {GlobalRef} \cup (1..m) |->
                        IF o = GlobalRef THEN SimpleModel ELSE updates[o]]
          /\ client_updates = [i \in 1..m |-> i]
    /\ \/ args = [weights_is_none |-> TRUE] /\ client_weights = <<>>
       \/ args = [weights_is_none |-> FALSE] /\ client_weights \in WeightLists
    /\ pc = "call_aggregate"
    /\ clients = <<>>
    /\ data_loader_len = <<>>
    /\ round = 0
    /\ selected_client_ids = <<>>
    /\ global_losses = <<>>
    /\ checkpoint = {}
    /\ indices = <<>>
    /\ client_data = <<>>
    /\ loaded = <<>>
    /\ monitor = <<>>
    /\ trainer = <<>>
    /\ err = "none"

\* server.aggregate_models(client_updates, client_weights)
AggregateCall ==
    /\ pc = "call_aggregate"
    /\ LET r == aggregate_models(StateDicts(client_updates),
                                 IF args.weights_is_none THEN {}
                                 ELSE {client_weights},
                                 GlobalParams)
       IN  /\ heap' = [heap EXCEPT ![GlobalRef] = r.store]
           /\ err' = r.err
           /\ pc' = IF r.err = "none" THEN "returned" ELSE "raised"
    /\ UNCHANGED <<indices, client_data, loaded, monitor, trainer>>
    /\ UNCHANGED <<args, round, clients, data_loader_len, selected_client_ids,
                   client_updates, client_weights, global_losses, checkpoint>>

NextAggregate == AggregateCall

SpecAggregate == InitAggregate /\ [][NextAggregate]_vars

(* --------------------- split_data called directly --------------------- *)
\* the label columns of the datasets tried
SplitDatasets ==
    {<<>>, <<0>>, <<1, 0>>, <<0, 0, 1>>, <<2, 0, 1, 0>>, <<1, 0, 2, 1, 0>>}

\* the values of method tried
SplitMethods == {"iid", "non_iid", "other"}

\* a dataset, a number of clients and a method before two calls of
\* split_data(dataset, num_clients, method), one after the other.  The
\* labels are tensors (a TensorDataset, as in main) or, for the split by
\* label, also plain ints.
InitSplit ==
    /\ args \in [labels : SplitDatasets, by_identity : BOOLEAN,
                 num_clients : (-1)..MaxSplitClients, method : SplitMethods]
    /\ args.method # "non_iid" => args.by_identity
    /\ pc = "call_split"
    /\ heap = <<>>
    /\ clients = <<>>
    /\ data_loader_len = <<>>
    /\ round = 0
    /\ selected_client_ids = <<>>
    /\ client_updates = <<>>
    /\ client_weights = <<>>
    /\ global_losses = <<>>
    /\ checkpoint = {}
    /\ indices = <<>>
    /\ client_data = <<>>
    /\ loaded = <<>>
    /\ monitor = <<>>
    /\ trainer = <<>>
    /\ err = "none"

\* split_data(dataset, num_clients, method): random.shuffle draws from the
\* generator of the random module, which nothing seeds, and leaves any
\* order of the indices
SplitCall ==
    /\ pc \in {"call_split", "call_split_again"}
    /\ LET e == SplitError(args.num_clients, args.method) IN
       IF e # "none"
       THEN /\ pc' = "raised"
            /\ err' = e
            /\ UNCHANGED <<indices, client_data, loaded, monitor, trainer>>
       ELSE /\ \E shuffled \in (IF args.method = "iid"
                                 THEN Shuffles(Iota(Len(args.labels)))
                                 ELSE {<<>>}) :
                  /\ indices' = Append(indices, shuffled)
                  /\ client_data' =
                         Append(client_data,
                                split_data(args.labels, args.by_identity,
                                           shuffled, args.num_clients,
                                           args.method))
            /\ pc' = IF pc = "call_split" THEN "call_split_again" ELSE "returned"
            /\ err' = err
    /\ UNCHANGED <<loaded, monitor, trainer>>
    /\ UNCHANGED <<args, round, heap, clients, data_loader_len,
                   selected_client_ids, client_updates, client_weights,
                   global_losses, checkpoint>>

NextSplit == SplitCall

SpecSplit == InitSplit /\ [][NextSplit]_vars

(* --------------------- Client.train called directly ------------------- *)
\* the values of epochs tried
TrainEpochs == {-1, 0, 1, 2}

\* the parameter values a client's model has before the call
TrainVals == {0, 1, 2}

TrainStores ==
    {[k \in ModelKeys |-> Tensor(ModelShape[k], RInt(v[k]))] :
        v \in [ModelKeys -> TrainVals]}

\* a Client(0, model, data_loader) before a call of train(epochs); its
\* loader has 0..MaxBatches batches
InitTrain ==
    /\ args \in [local_epochs : TrainEpochs]
    /\ data_loader_len \in [{0} -> 0..MaxBatches]
    /\ clients = [c \in {0} |-> ClientModel(c, GlobalRef)]
    /\ \E store \in TrainStores :
          heap = [o \in {GlobalRef, ClientModel(0, GlobalRef)} |->
                     IF o = GlobalRef THEN SimpleModel ELSE store]
    /\ pc = "call_train"
    /\ round = 0
    /\ selected_client_ids = <<>>
    /\ client_updates = <<>>
    /\ client_weights = <<>>
    /\ global_losses = <<>>
    /\ checkpoint = {}
    /\ indices = <<>>
    /\ client_data = <<>>
    /\ loaded = <<>>
    /\ monitor = <<>>
    /\ trainer = <<>>
    /\ err = "none"

\* client.train(epochs): raises, or returns the state dict of its model
TrainCall ==
    /\ pc = "call_train"
    /\ LET e == TrainError(args.local_epochs, data_loader_len[0]) IN
       IF e # "none"
       THEN /\ pc' = "raised"
            /\ err' = e
            /\ UNCHANGED <<heap, client_updates>>
       ELSE /\ \E d \in TrainDeltas(args.local_epochs, data_loader_len[0]) :
                  heap' = [heap EXCEPT ![clients[0]] = Trained(@, d)]
            /\ client_updates' = <<clients[0]>>
            /\ pc' = "returned"
            /\ err' = err
    /\ UNCHANGED <<indices, client_data, loaded, monitor, trainer>>
    /\ UNCHANGED <<args, round, clients, data_loader_len, selected_client_ids,
                   client_weights, global_losses, checkpoint>>

NextTrain == TrainCall

SpecTrain == InitTrain /\ [][NextTrain]_vars

(* --------------------- load_model called directly --------------------- *)
\* the two load_model functions: inference.load_model(model_path, device)
\* builds the model itself, model_optimization.load_model(model_path,
\* model, device) is handed one
LoadFunctions == {"inference", "model_optimization"}

\* the object of the model that load_model loads into
LoadModelRef == 1

\* the architecture in use, with the parameter values a model of it can
\* have before the load: keys and shapes of SimpleModel stand for those of
\* AgentModel and of model_optimization's SimpleModel
FreshModels == TrainStores

\* a call of load_model before it is made: the file at model_path does not
\* exist (checkpoint = {}) or holds a state dict; model_optimization's
\* caller has built the model already
InitLoad ==
    /\ args \in [function : LoadFunctions]
    /\ checkpoint \in {{}} \cup {{sd} : sd \in UpdateStores}
    /\ IF args.function = "model_optimization"
       THEN \E model \in FreshModels : heap = [o \in {LoadModelRef} |-> model]
       ELSE heap = <<>>
    /\ pc = "call_load"
    /\ clients = <<>>
    /\ data_loader_len = <<>>
    /\ round = 0
    /\ selected_client_ids = <<>>
    /\ client_updates = <<>>
    /\ client_weights = <<>>
    /\ global_losses = <<>>
    /\ indices = <<>>
    /\ client_data = <<>>
    /\ loaded = <<>>
    /\ monitor = <<>>
    /\ trainer = <<>>
    /\ err = "none"

\* load_model(model_path, ...): a missing file raises FileNotFoundError
\* (inference checks os.path.exists before it builds the model, torch.load
\* raises it in model_optimization); otherwise the state dict of the file
\* is loaded into the model, strictly, and the model is returned unless
\* the load raised.  Both functions log the exception and raise it again.
LoadCall ==
    /\ pc = "call_load"
    /\ IF checkpoint = {}
       THEN /\ pc' = "raised"
            /\ err' = "FileNotFoundError"
            /\ UNCHANGED <<heap, loaded>>
       ELSE \E sd \in checkpoint :
            \E model \in (IF args.function = "inference" THEN FreshModels
                          ELSE {heap[LoadModelRef]}) :
            \E r \in {load_state_dict(model, sd)} :
                /\ heap' = [o \in {LoadModelRef} |-> r.store]
                /\ err' = r.err
                /\ IF r.err = "none"
                   THEN pc' = "returned" /\ loaded' = <<LoadModelRef>>
                   ELSE pc' = "raised" /\ loaded' = loaded
    /\ UNCHANGED <<indices, client_data, monitor, trainer>>
    /\ UNCHANGED <<args, round, clients, data_loader_len, selected_client_ids,
                   client_updates, client_weights, global_losses, checkpoint>>

NextLoad == LoadCall

SpecLoad == InitLoad /\ [][NextLoad]_vars

(* ------------- APIMonitor.start and stop called by threads ------------ *)
\* the threads that call start() and stop() on one APIMonitor
Callers == {<<"caller", i>> : i \in 1..MaxCallers}

\* the threading.Thread objects start() has created so far; they are
\* numbered in the order of their creation
Threads == {w \in DOMAIN pc : w[1] = "thread"}

\* the names of the threading.Thread objects start() may create
ThreadIds == {<<"thread", j>> : j \in 1..MaxThreads}

\* self.thread = None: the thread object that is no thread
None == <<"thread", 0>>

\* a thread is alive from its start() until its target returns
Alive(t) == pc[t].at \in {"loop", "checking"}

\* an APIMonitor after __init__, nobody inside start() or stop()
InitMonitor ==
    /\ monitor = [is_running |-> FALSE, thread |-> None]
    /\ pc = [c \in Callers |-> [at |-> "idle", joined |-> None]]
    /\ args = <<>>
    /\ heap = <<>>
    /\ clients = <<>>
    /\ data_loader_len = <<>>
    /\ round = 0
    /\ selected_client_ids = <<>>
    /\ client_updates = <<>>
    /\ client_weights = <<>>
    /\ global_losses = <<>>
    /\ checkpoint = {}
    /\ indices = <<>>
    /\ client_data = <<>>
    /\ loaded = <<>>
    /\ trainer = <<>>
    /\ err = "none"

\* what no step of the monitor touches
MonitorFrame ==
    UNCHANGED <<args, round, heap, clients, data_loader_len,
                selected_client_ids, client_updates, client_weights,
                global_losses, checkpoint, indices, client_data, loaded,
                trainer>>

\* caller c moves to position p
Goto(c, p) == pc' = [pc EXCEPT ![c].at = p]

\* caller c calls start() or stop()
Call(c) ==
    /\ pc[c].at = "idle"
    /\ \E f \in {"start_91", "stop_103"} : Goto(c, f)
    /\ UNCHANGED <<monitor, err>>
    /\ MonitorFrame

\* start, line 91: if not self.is_running (else the warning of line 97)
StartCheck(c) ==
    /\ pc[c].at = "start_91"
    /\ Goto(c, IF monitor.is_running THEN "idle" ELSE "start_92")
    /\ UNCHANGED <<monitor, err>>
    /\ MonitorFrame

\* start, line 92: self.is_running = True
StartSet(c) ==
    /\ pc[c].at = "start_92"
    /\ monitor' = [monitor EXCEPT !.is_running = TRUE]
    /\ Goto(c, "start_93")
    /\ UNCHANGED err
    /\ MonitorFrame

\* start, line 93: self.thread = threading.Thread(target=self.monitor)
StartCreate(c) ==
    /\ pc[c].at = "start_93"
    /\ Cardinality(Threads) < MaxThreads
    /\ LET t == <<"thread", Cardinality(Threads) + 1>> IN
       /\ monitor' = [monitor EXCEPT !.thread = t]
       /\ pc' = [w \in DOMAIN pc \cup {t} |->
                   IF w = t THEN [at |-> "new", joined |-> None]
                   ELSE IF w = c THEN [pc[c] EXCEPT !.at = "start_94"]
                   ELSE pc[w]]
    /\ UNCHANGED err
    /\ MonitorFrame

\* start, line 94: self.thread.start(), on the thread self.thread holds
\* now; a thread that has been started already raises RuntimeError
StartThread(c) ==
    /\ pc[c].at = "start_94"
    /\ LET t == monitor.thread IN
       IF pc[t].at = "new"
       THEN /\ pc' = [pc EXCEPT ![c].at = "idle", ![t].at = "loop"]
            /\ err' = err
       ELSE /\ Goto(c, "idle")
            /\ err' = "RuntimeError"
    /\ UNCHANGED monitor
    /\ MonitorFrame

\* stop, line 103: if self.is_running (else the warning of line 109)
StopCheck(c) ==
    /\ pc[c].at = "stop_103"
    /\ Goto(c, IF monitor.is_running THEN "stop_104" ELSE "idle")
    /\ UNCHANGED <<monitor, err>>
    /\ MonitorFrame

\* stop, line 104: self.is_running = False
StopSet(c) ==
    /\ pc[c].at = "stop_104"
    /\ monitor' = [monitor EXCEPT !.is_running = FALSE]
    /\ Goto(c, "stop_105")
    /\ UNCHANGED err
    /\ MonitorFrame

\* stop, line 105: if self.thread
StopTest(c) ==
    /\ pc[c].at = "stop_105"
    /\ Goto(c, IF monitor.thread # None THEN "stop_106" ELSE "idle")
    /\ UNCHANGED <<monitor, err>>
    /\ MonitorFrame

\* stop, line 106: self.thread.join() is called on the thread self.thread
\* holds now; a thread that has not been started raises RuntimeError
StopJoin(c) ==
    /\ pc[c].at = "stop_106"
    /\ LET t == monitor.thread IN
       IF pc[t].at = "new"
       THEN /\ Goto(c, "idle")
            /\ err' = "RuntimeError"
       ELSE /\ pc' = [pc EXCEPT ![c] = [at |-> "joining", joined |-> t]]
            /\ err' = err
    /\ UNCHANGED monitor
    /\ MonitorFrame

\* stop, line 106: join() returns once the joined thread has ended
StopJoined(c) ==
    /\ pc[c].at = "joining"
    /\ pc[pc[c].joined].at = "terminated"
    /\ pc' = [pc EXCEPT ![c] = [at |-> "idle", joined |-> None]]
    /\ UNCHANGED <<monitor, err>>
    /\ MonitorFrame

\* monitor, line 81: while self.is_running
MonitorLoop(t) ==
    /\ t \in Threads
    /\ pc[t].at = "loop"
    /\ Goto(t, IF monitor.is_running THEN "checking" ELSE "terminated")
    /\ UNCHANGED <<monitor, err>>
    /\ MonitorFrame

\* monitor, lines 82-85: the checks of the endpoints and the sleep
MonitorSleep(t) ==
    /\ t \in Threads
    /\ pc[t].at = "checking"
    /\ Goto(t, "loop")
    /\ UNCHANGED <<monitor, err>>
    /\ MonitorFrame

NextMonitor ==
    \/ \E c \in Callers :
          \/ Call(c)
          \/ StartCheck(c)
          \/ StartSet(c)
          \/ StartCreate(c)
          \/ StartThread(c)
          \/ StopCheck(c)
          \/ StopSet(c)
          \/ StopTest(c)
          \/ StopJoin(c)
          \/ StopJoined(c)
    \/ \E t \in ThreadIds :
          \/ MonitorLoop(t)
          \/ MonitorSleep(t)

SpecMonitor == InitMonitor /\ [][NextMonitor]_vars

(* ---------------- ModelTrainer.train, called repeatedly --------------- *)
\* the values validate() may return
Losses == 0..MaxLoss

\* float('inf'): above every loss
Inf == MaxLoss + 1

\* the values the parameters of a model may take
ParamValues == 0..MaxParam

\* self.best_model = None
NoBestModel == 0

\* the least element of a non-empty set of losses
Least(S) == CHOOSE x \in S : \A y \in S : x <= y

\* a ModelTrainer after __init__; losses and best_params record, for the
\* statement of properties, every validation loss seen so far and the
\* parameters at the end of the epoch that set best_val_loss
InitTrainer ==
    /\ trainer = [best_val_loss |-> Inf, best_model |-> NoBestModel,
                  model |-> 0, local_best_val_loss |-> Inf,
                  early_stopping_counter |-> 0, epoch |-> 0, calls |-> 0,
                  losses |-> {}, best_params |-> 0]
    /\ pc = "idle"
    /\ args = <<>>
    /\ heap = <<>>
    /\ clients = <<>>
    /\ data_loader_len = <<>>
    /\ round = 0
    /\ selected_client_ids = <<>>
    /\ client_updates = <<>>
    /\ client_weights = <<>>
    /\ global_losses = <<>>
    /\ checkpoint = {}
    /\ indices = <<>>
    /\ client_data = <<>>
    /\ loaded = <<>>
    /\ monitor = <<>>
    /\ err = "none"

\* what no step of the trainer touches
TrainerFrame ==
    UNCHANGED <<round, clients, data_loader_len, selected_client_ids,
                client_updates, client_weights, global_losses, indices,
                client_data, loaded, monitor>>

\* train, lines 191-204: a new model is built and the counters of the
\* call are reset
TrainerCall ==
    /\ pc = "idle"
    /\ trainer.calls < MaxTrainCalls
    /\ \E num_epochs \in 0..MaxEpochs, patience \in 1..MaxPatience,
          p \in ParamValues :
          LET model == Len(heap) + 1 IN
          /\ args' = [num_epochs |-> num_epochs,
                      early_stopping_patience |-> patience]
          /\ heap' = Append(heap, p)
          /\ trainer' = [trainer EXCEPT !.model = model,
                                        !.local_best_val_loss = Inf,
                                        !.early_stopping_counter = 0,
                                        !.epoch = 0,
                                        !.calls = @ + 1]
    /\ pc' = "loop"
    /\ UNCHANGED <<checkpoint, err>>
    /\ TrainerFrame

\* the dictionary model.state_dict() returns holds the parameter tensors
\* of the model themselves, so it is the model object that is kept
state_dict(model) == model

\* train, lines 206-226: one pass of the loop over the epochs
TrainerEpoch ==
    /\ pc = "loop"
    /\ trainer.epoch < args.num_epochs
    /\ \E p \in ParamValues, val_loss \in Losses :
          LET improved == val_loss < trainer.local_best_val_loss
              best == improved /\ val_loss < trainer.best_val_loss
              counter == IF improved THEN 0
                         ELSE trainer.early_stopping_counter + 1
              break == ~improved /\ counter >= args.early_stopping_patience
              trained == [heap EXCEPT ![trainer.model] = p]
              kept == state_dict(trainer.model)
          IN
          /\ heap' = trained
          /\ trainer' = [trainer EXCEPT
                !.local_best_val_loss = IF improved THEN val_loss ELSE @,
                !.early_stopping_counter = counter,
                !.best_val_loss = IF best THEN val_loss ELSE @,
                !.best_model = IF best THEN kept ELSE @,
                !.epoch = @ + 1,
                !.losses = @ \cup {val_loss},
                !.best_params = IF best THEN p ELSE @]
          /\ pc' = IF break THEN "break" ELSE "loop"
    /\ UNCHANGED <<args, checkpoint, err>>
    /\ TrainerFrame

\* train, lines 228-235: the results are returned; with no epoch run,
\* train_loss of line 229 is unbound and the call raises
TrainerReturn ==
    /\ \/ pc = "break"
       \/ pc = "loop" /\ trainer.epoch >= args.num_epochs
    /\ pc' = "idle"
    /\ err' = IF trainer.epoch = 0 THEN "UnboundLocalError" ELSE err
    /\ UNCHANGED <<args, heap, trainer, checkpoint>>
    /\ TrainerFrame

\* save_model, lines 287-296: self.best_model is written to the file
TrainerSave ==
    /\ pc = "idle"
    /\ IF trainer.best_model = NoBestModel
       THEN /\ err' = "ValueError"
            /\ UNCHANGED checkpoint
       ELSE /\ checkpoint' = {heap[trainer.best_model]}
            /\ UNCHANGED err
    /\ UNCHANGED <<pc, args, heap, trainer>>
    /\ TrainerFrame

NextTrainer ==
    \/ TrainerCall
    \/ TrainerEpoch
    \/ TrainerReturn
    \/ TrainerSave

SpecTrainer == InitTrainer /\ [][NextTrainer]_vars

(* ======================= select_clients (C1) ========================== *)
\* C1: for num_clients >= 1 and a fraction in (0, 1], select_clients returns
\* pairwise distinct ids of {0, ..., num_clients-1}, exactly
\* max(1, floor(num_clients * fraction)) of them, and never raises.
C1_SelectClientsContract ==
    LET n == args.num_clients
        f == args.client_fraction
        s == selected_client_ids
    IN  (pc # "call_select" /\ n >= 1 /\ f[1] > 0 /\ f[1] <= f[2]) =>
            /\ pc = "returned"
            /\ Len(s) = Max(1, (n * f[1]) \div f[2])
            /\ \A i \in 1..Len(s) : s[i] \in 0..(n - 1)
            /\ \A i, j \in 1..Len(s) : i # j => s[i] # s[j]

\* five clients, fraction 0.2: one id was returned
C1_Witness ==
    /\ pc = "returned"
    /\ args.num_clients = 5
    /\ args.client_fraction = <<1, 5>>
    /\ Len(selected_client_ids) = 1

(* ==================== aggregate_models (C2, C3, C5, C6) =============== *)
\* the call under test has ended, by return or by exception
AggregateEnded == pc \in {"returned", "raised"}

\* every update has the keys and shapes of the global SimpleModel
KeyCompatible ==
    \A i \in 1..Len(client_updates) :
        /\ DOMAIN heap[client_updates[i]] = ModelKeys
        /\ \A k \in ModelKeys : heap[client_updates[i]][k].shape = ModelShape[k]

\* no weights, or one weight 1/len(client_updates) per update
UniformWeights ==
    \/ args.weights_is_none
    \/ /\ Len(client_weights) = Len(client_updates)
       /\ \A i \in 1..Len(client_weights) :
             client_weights[i][1] = 1 /\ client_weights[i][2] = Len(client_updates)

\* C2: a non-empty list of key-compatible updates with uniform weights
\* aggregates, for every key, to the arithmetic mean of the updates: the
\* result times the number of updates is their sum.
C2_UniformWeightsGiveMean ==
    (AggregateEnded /\ Len(client_updates) >= 1 /\ KeyCompatible /\ UniformWeights) =>
        /\ pc = "returned"
        /\ \A k \in ModelKeys :
              /\ GlobalParams[k].shape = ModelShape[k]
              /\ RMul(GlobalParams[k].val, RInt(Len(client_updates)))
                    = RSum([i \in 1..Len(client_updates) |->
                               heap[client_updates[i]][k].val])

\* w = 2 and w = 4 with weights [0.5, 0.5] gave w = 3; and a call without
\* weights on two different updates returned
C2_Witness ==
    /\ pc = "returned"
    /\ KeyCompatible
    /\ Len(client_updates) = 2
    /\ heap[client_updates[1]]["w"].val = RInt(2)
    /\ heap[client_updates[2]]["w"].val = RInt(4)
    /\ ~args.weights_is_none
    /\ client_weights = <<Rat(1, 2), Rat(1, 2)>>
    /\ GlobalParams["w"].val = RInt(3)

\* C3: a weight vector whose sum is not 1 makes aggregate fail instead of
\* producing an aggregated store (any exception is counted as the failure:
\* the source defines no AggregationError).
C3_RejectsWeightsNotSummingToOne ==
    (AggregateEnded /\ Len(client_updates) >= 1 /\ ~args.weights_is_none
        /\ RSum(client_weights) # RInt(1)) => pc = "raised"

\* C5: after a failed aggregation attempt the global store is, key by key,
\* the store before the attempt (a fresh SimpleModel).
C5_FailedAggregationLeavesGlobal ==
    pc = "raised" => \A k \in ModelKeys : GlobalParams[k] = SimpleModel[k]

\* C6: aggregate fails whenever some client update is not key/shape
\* compatible with the global store.
C6_RejectsIncompatibleUpdates ==
    (AggregateEnded /\ Len(client_updates) >= 1 /\ ~KeyCompatible) => pc = "raised"

(* ======================= the round loop (C4, C7-C10) ================== *)
\* C4: the weights the round loop hands to aggregate_models sum to 1.
C4_LoopWeightsSumToOne ==
    (pc = "train" /\ TrainLoopDone) => RSum(client_weights) = RInt(1)

\* C7: after every completed round every client's local parameters, selected
\* or not, equal the global store.
C7_ClientsEqualGlobalAfterRound ==
    (round >= 1 /\ pc \in {"idle", "done"}) =>
        \A c \in Clients : LocalParams(c) = GlobalParams

\* a round with a client left unselected has completed and has changed the
\* global store
C7_Witness ==
    /\ round >= 1
    /\ pc = "idle"
    /\ Len(selected_client_ids) < args.num_clients
    /\ GlobalParams # SimpleModel
    /\ \A c \in Clients : LocalParams(c) = GlobalParams

\* C8: the global store changes only in the aggregation step: selection,
\* local training, distribution, evaluation and saving leave it unchanged.
C8_GlobalChangesOnlyInAggregation ==
    [][GlobalParams' # GlobalParams =>
          (pc = "train" /\ TrainLoopDone /\ pc' \in {"sync", "error"})]_vars

\* in a later round a client has trained away from the global store, which
\* is still the one the last evaluation saw
C8_Witness ==
    /\ round >= 1
    /\ pc = "train"
    /\ Len(client_updates) >= 1
    /\ GlobalParams = global_losses[Len(global_losses)]
    /\ GlobalParams # SimpleModel
    /\ \E c \in Clients : LocalParams(c) # GlobalParams

\* C9: a pass of the training loop changes the local parameters of the
\* training client only; every other client's stay as they are.
C9_TrainingChangesOnlyOwnParams ==
    [][(pc = "train" /\ ~TrainLoopDone) =>
          \A c \in Clients :
              c # selected_client_ids[Len(client_updates) + 1] =>
                  LocalParams(c)' = LocalParams(c)]_vars

\* in a later round one client has trained and another selected one, still
\* to train, holds other parameters
C9_Witness ==
    /\ round >= 1
    /\ pc = "train"
    /\ Len(client_updates) >= 1
    /\ ~TrainLoopDone
    /\ LocalParams(selected_client_ids[1])
          # LocalParams(selected_client_ids[Len(client_updates) + 1])

\* every client selected for the round has returned its update
AllSelectedReturned ==
    \A i \in 1..Len(selected_client_ids) :
        \E j \in 1..Len(client_updates) :
            client_updates[j] = clients[selected_client_ids[i]]

\* C10: the aggregation step is taken only when every client selected for
\* the round has returned its update.
C10_RoundBarrier ==
    [][(GlobalParams' # GlobalParams \/ (pc = "train" /\ pc' = "sync")) =>
          AllSelectedReturned]_vars

\* an aggregation over several selected clients has been taken
C10_Witness ==
    /\ pc = "sync"
    /\ Len(selected_client_ids) >= 2
    /\ AllSelectedReturned

(* ================== failing clients within a round (C11) ============== *)
\* the train call of client c fails
TrainFails(c) == TrainError(args.local_epochs, data_loader_len[c]) # "none"

\* the run has ended by the exception of a train call (ZeroDivisionError is
\* raised by nothing else in main)
AbortedByTraining == pc = "error" /\ err = "ZeroDivisionError"

\* C11: a selected client whose local training fails is left out of the
\* round's aggregation and the round still completes; the run is aborted by
\* client failures only when every selected client of the round failed.
C11_AbortOnlyWhenAllSelectedFail ==
    AbortedByTraining =>
        \A i \in 1..Len(selected_client_ids) : TrainFails(selected_client_ids[i])

(* ======================= rounds are atomic (C12) ====================== *)
\* the run has stopped: normally, by an exception, or from outside
RunStopped == pc \in {"done", "error", "stopped"}

\* the global parameters as the last completed round left them (round
\* counts the completed rounds; each one appended what it evaluated)
PreRoundGlobal == IF round = 0 THEN SimpleModel ELSE global_losses[round]

\* C12: rounds are all-or-nothing.  Whenever the run has stopped (normally,
\* by an error, or because it was stopped from outside during a round),
\* every round has either all of its effects or none: the rounds counted as
\* completed have their record, and the global parameters are the ones the
\* last completed round left, so that an abandoned round has not touched
\* them.
C12_RoundsAllOrNothing ==
    (RunStopped /\ GlobalRef \in DOMAIN heap) =>
        /\ Len(global_losses) = round
        /\ GlobalParams = PreRoundGlobal

(* ============ select_clients on a fraction outside (0, 1] (C13) ======= *)
\* C13: for every fraction outside (0, 1], that is fraction <= 0 or
\* fraction > 1, select_clients fails (with ConfigurationError) and returns
\* no selection.  The class of the exception is left open here: the
\* property is that the call raises instead of returning.
C13_RejectsFractionOutsideUnitInterval ==
    LET f == args.client_fraction IN
    (pc # "call_select" /\ (f[1] <= 0 \/ f[1] > f[2])) =>
        /\ pc = "raised"
        /\ selected_client_ids = <<>>

(* =================== training on an empty shard (C14) ================= *)
\* C14: a train call of a client whose shard has no example fails with
\* EmptyShardError: it does not return a state dict and a loss, and it does
\* not fail by a division by zero.
C14_EmptyShardFailsWithoutDividingByZero ==
    (pc # "call_train" /\ data_loader_len[0] = 0) =>
        /\ pc = "raised"
        /\ err # "ZeroDivisionError"

(* ========================= the iid split (C15-C18) ==================== *)
\* the calls of split_data that have returned
SplitReturns == 1..Len(client_data)

\* the calls under test split by method over at least one client
SplitOver(method) == args.method = method /\ args.num_clients >= 1

\* the places <<client, position>> of a returned list at which index x stands
Places(shards, x) ==
    {ip \in UNION {{<<i, p>> : p \in 1..Len(shards[i])} : i \in DOMAIN shards} :
        shards[ip[1]][ip[2]] = x}

\* C15: for every dataset and every num_clients >= 1 the iid split returns
\* exactly num_clients shards, and every example of the dataset stands in
\* exactly one shard, exactly once: the shards are pairwise disjoint and
\* their union is the whole dataset.
C15_IidShardsPartitionDataset ==
    SplitOver("iid") =>
        \A r \in SplitReturns :
            LET shards == client_data[r] IN
            /\ DOMAIN shards = 0..(args.num_clients - 1)
            /\ \A i \in DOMAIN shards : Range(shards[i]) \subseteq Range(Iota(Len(args.labels)))
            /\ \A x \in Range(Iota(Len(args.labels))) : Cardinality(Places(shards, x)) = 1

\* an iid split of five examples over three clients has returned
C15_Witness ==
    /\ SplitOver("iid")
    /\ pc = "returned"
    /\ Len(args.labels) = 5
    /\ args.num_clients = 3
    /\ Len(client_data) = 2

\* C16, as claimed: the sizes of any two shards of an iid split differ by at
\* most 1.
C16_SizesDifferByAtMostOne ==
    SplitOver("iid") =>
        \A r \in SplitReturns : \A i, j \in DOMAIN client_data[r] :
            Len(client_data[r][i]) - Len(client_data[r][j]) <= 1

\* C16, amended: all shards of an iid split but the last have the same
\* size, and the last one has data_size mod num_clients examples more than
\* each of them; so the sizes of two shards differ by at most
\* data_size mod num_clients, which is at most num_clients - 1.
C16_LastShardLargerByRemainder ==
    SplitOver("iid") =>
        \A r \in SplitReturns :
            LET shards == client_data[r]
                last == args.num_clients - 1
            IN  \A i \in DOMAIN shards \ {last} :
                    /\ Len(shards[i]) = Len(shards[0])
                    /\ Len(shards[last]) - Len(shards[i]) =
                           Len(args.labels) % args.num_clients

\* an iid split has returned shards of sizes 1, 1 and 3
C16_Witness ==
    /\ SplitOver("iid")
    /\ client_data # <<>>
    /\ DOMAIN client_data[1] = 0..2
    /\ Len(client_data[1][0]) = 1
    /\ Len(client_data[1][1]) = 1
    /\ Len(client_data[1][2]) = 3

\* C17: in an iid split of n examples over k clients, shards 0..k-2 are
\* consecutive slices of floor(n/k) indices each of the shuffled index
\* order, and the last shard is the rest of that order, n - (k-1)*floor(n/k)
\* indices.
C17_ShardsAreSlicesOfShuffledOrder ==
    SplitOver("iid") =>
        \A r \in SplitReturns :
            LET shards == client_data[r]
                n == Len(args.labels)
                k == args.num_clients
                q == n \div k
            IN  /\ Len(indices[r]) = n
                /\ Range(indices[r]) = Range(Iota(n))
                /\ \A i \in 0..(k - 2) :
                       shards[i] = SubSeq(indices[r], i * q + 1, (i + 1) * q)
                /\ shards[k - 1] = SubSeq(indices[r], (k - 1) * q + 1, n)
                /\ Len(shards[k - 1]) = n - (k - 1) * q

\* an iid split of five examples over two clients has returned: two
\* indices for client 0, three for client 1
C17_Witness ==
    /\ SplitOver("iid")
    /\ client_data # <<>>
    /\ Len(args.labels) = 5
    /\ args.num_clients = 2
    /\ Len(client_data[1][0]) = 2
    /\ Len(client_data[1][1]) = 3

\* C18: the iid split is deterministic in the seed: two splits of the same
\* dataset over the same number of clients, made under the same seed (the
\* program has one seed, the constant of line 27), return the same shards,
\* whatever random draws were made before each of them.  Shards are
\* compared as sets of examples.
C18_SameSeedSameShards ==
    (SplitOver("iid") /\ Len(client_data) = 2) =>
        \A i \in DOMAIN client_data[1] :
            Range(client_data[1][i]) = Range(client_data[2][i])

(* ======================= the split by label (C19, C20) ================ *)
\* C19: in a split by label over num_clients >= 1 clients no example is
\* assigned to more than one client, and the clients of an example depend
\* on its label only: examples of the same label go to the same client.
C19_LabelSplitAssignsAtMostOneClient ==
    SplitOver("non_iid") =>
        \A r \in SplitReturns :
            LET shards == client_data[r]
                Examples == Range(Iota(Len(args.labels)))
            IN  /\ \A i, j \in DOMAIN shards :
                       i # j => Range(shards[i]) \cap Range(shards[j]) = {}
                /\ \A a, b \in Examples :
                       args.labels[a + 1] = args.labels[b + 1] =>
                           \A i \in DOMAIN shards :
                               a \in Range(shards[i]) <=> b \in Range(shards[i])

\* the elements of a set of numbers in increasing order
RECURSIVE SortSet(_)
SortSet(S) ==
    IF S = {} THEN <<>>
    ELSE LET lo == CHOOSE x \in S : \A y \in S : x <= y
         IN  <<lo>> \o SortSet(S \ {lo})

\* C20: in a split by label of a dataset with L distinct labels over k
\* clients, client i gets exactly the examples whose label is one of the
\* sorted distinct labels at positions i*floor(L/k) .. (i+1)*floor(L/k)-1;
\* the examples of the remaining L - k*floor(L/k) labels go to nobody, and
\* a client with an empty group of labels gets an empty shard, so that
\* every shard is empty when k > L.
C20_LabelSplitByDistinctLabelGroups ==
    SplitOver("non_iid") =>
        \A r \in SplitReturns :
            LET shards == client_data[r]
                distinct == SortSet(Range(args.labels))
                L == Len(distinct)
                k == args.num_clients
                per == L \div k
                Group(i) == {distinct[p + 1] : p \in (i * per)..((i + 1) * per - 1)}
            IN  /\ \A i \in 0..(k - 1) :
                       LET InGroup(idx) == args.labels[idx + 1] \in Group(i)
                       IN  shards[i] = SelectSeq(Iota(Len(args.labels)), InGroup)
                /\ k > L => \A i \in 0..(k - 1) : shards[i] = <<>>

(* ============ split_data on unusable arguments (C21) ================== *)
\* C21: split_data fails (with ConfigurationError) for every
\* num_clients < 1, zero and negative, under both methods, and for a
\* method it does not know; it returns no list of shards then.  The class
\* of the exception is left open here.
C21_RejectsUnusableArguments ==
    (args.num_clients < 1 \/ args.method \notin {"iid", "non_iid"}) =>
        /\ client_data = <<>>
        /\ pc # "call_split" => pc = "raised"

(* ===================== the training history (C22) ===================== *)
\* C22: the history is append-only with one record per completed round.
\* In every step the history has as many records as rounds have completed,
\* before and after; it either stays as it is or gets one record at its
\* end, in the step that completes a round, and the records it had are
\* unchanged.  The record added by the r-th round is therefore the one at
\* 0-based position r-1.
C22_HistoryAppendOnly ==
    [][/\ Len(global_losses) = round
       /\ Len(global_losses') = round'
       /\ round' \in {round, round + 1}
       /\ SubSeq(global_losses', 1, Len(global_losses)) = global_losses]_vars

\* two rounds have completed and the history holds their two records, the
\* second one at 0-based position 1
C22_Witness ==
    /\ pc = "idle"
    /\ round = 2
    /\ Len(global_losses) = 2
    /\ global_losses[2] = GlobalParams
    /\ global_losses[1] # global_losses[2]

(* ================= the round loop terminates (C23) ==================== *)
\* a configuration main can run on: set-up went through, the fraction is
\* in (0, 1], training makes at least one epoch, no shard is empty
ValidConfiguration ==
    /\ clients # <<>>
    /\ args.client_fraction[1] > 0
    /\ args.client_fraction[1] <= args.client_fraction[2]
    /\ args.local_epochs >= 1
    /\ \A c \in DOMAIN data_loader_len : data_loader_len[c] >= 1

\* the round loop has been left after args.rounds rounds and the run has
\* ended with save_model, which wrote the file or failed on it
Done ==
    /\ round = args.rounds
    /\ pc = "done" \/ (pc = "error" /\ err = "IOError")

\* C23: for every round count R >= 0 and a valid configuration with
\* non-empty shards, main goes from idle into a round and back exactly R
\* times and is then done: a round is started only while fewer than R
\* rounds have completed, a round that was started completes, the run is
\* never done after fewer than R rounds, and it ends.
C23_RunsExactlyRRoundsThenDone ==
    /\ [][(pc = "idle" /\ pc' = "train") => round < args.rounds]_vars
    /\ [](pc = "done" => Len(global_losses) = args.rounds)
    /\ []((ValidConfiguration /\ pc = "error") => Done)
    /\ ValidConfiguration ~> Done

\* a run on a valid configuration is done after MaxRounds rounds
C23_Witness ==
    /\ ValidConfiguration
    /\ args.rounds = MaxRounds
    /\ pc = "done"
    /\ round = MaxRounds

(* ===================== the final checkpoint (C24) ===================== *)
\* C24: the checkpoint is written only after all args.rounds rounds have
\* completed, and it holds the global parameters the aggregation of the
\* last round produced (the ones that round evaluated and recorded); a run
\* that aborts before it has completed all rounds writes no checkpoint.
C24_CheckpointAfterLastRound ==
    /\ checkpoint # {} =>
           /\ pc = "done"
           /\ round = args.rounds
           /\ Len(global_losses) = args.rounds
           /\ checkpoint = {GlobalParams}
           /\ args.rounds >= 1 => checkpoint = {global_losses[args.rounds]}
    /\ (pc = "error" /\ round < args.rounds) => checkpoint = {}

\* the checkpoint of a run of MaxRounds rounds has been written, with
\* parameters that differ from the initial ones
C24_Witness ==
    /\ pc = "done"
    /\ args.rounds = MaxRounds
    /\ checkpoint = {GlobalParams}
    /\ GlobalParams # SimpleModel

(* ======================= loading a checkpoint (C25) =================== *)
\* the state dict of the file has the keys and shapes of the architecture
SchemaMatches(sd) ==
    /\ DOMAIN sd = ModelKeys
    /\ \A k \in ModelKeys : sd[k].shape = ModelShape[k]

C26_StepsInOrder ==
    [][/\ pc = "idle" => pc' \in {"train", "error", "done"}
       /\ (pc = "idle" /\ pc' = "train") =>
              /\ selected_client_ids' # <<>>
              /\ client_updates' = <<>>
       /\ pc = "train" => pc' \in {"train", "sync", "error"}
       /\ (pc = "train" /\ pc' = "train") =>
              /\ Len(client_updates) < Len(selected_client_ids)
              /\ client_updates' =
                     Append(client_updates,
                            clients[selected_client_ids[Len(client_updates) + 1]])
       /\ (pc = "train" /\ pc' = "sync") =>
              /\ Len(client_updates) = Len(selected_client_ids)
              /\ GlobalParams' =
                     aggregate_models(StateDicts(client_updates),
                                      {client_weights}, GlobalParams).store
              /\ GlobalParams' # PreRoundGlobal
       /\ pc = "sync" =>
              /\ pc' \in {"evaluate", "error"}
              /\ GlobalParams' = GlobalParams
              /\ pc' = "evaluate" =>
                     \A c \in Clients : heap'[clients'[c]] = GlobalParams
       /\ pc = "evaluate" =>
              /\ pc' = "idle"
              /\ GlobalParams' = GlobalParams
              /\ global_losses' = Append(global_losses, GlobalParams)
              /\ GlobalParams # PreRoundGlobal]_vars

\* the second round is about to evaluate: all clients hold the new global
\* store, which differs from the one the first round recorded
C26_Witness ==
    /\ pc = "evaluate"
    /\ round = 1
    /\ GlobalParams # global_losses[1]
    /\ \A c \in Clients : LocalParams(c) = GlobalParams

(* ============ a client trains from the global parameters (C27) ======== *)
\* the selected client whose train call comes next
NextToTrain == selected_client_ids[Len(client_updates) + 1]

\* C27: whenever a selected client is about to start its local training,
\* in the first round or a later one, selected before or not, its local
\* parameters equal the current global parameters: it trains from a copy
\* of them and not from what its own earlier training left.
C27_TrainsFromGlobalParams ==
    (pc = "train" /\ ~TrainLoopDone) =>
        LocalParams(NextToTrain) = GlobalParams

\* in the second round a client is about to train, after the first round
\* has moved the global parameters and another client of this round has
\* trained already
C27_Witness ==
    /\ pc = "train"
    /\ round = 1
    /\ Len(client_updates) = 1
    /\ Len(selected_client_ids) >= 2
    /\ GlobalParams # SimpleModel
    /\ LocalParams(selected_client_ids[1]) # GlobalParams

(* ============ the lists handed to the aggregation (C28) =============== *)
\* the training loop of the round is over and the aggregation is called
\* next or has been called
AtAggregation == (pc = "train" /\ TrainLoopDone) \/ pc = "sync"

\* C28: in every round the list of updates and the list of weights handed
\* to aggregate_models have the same length, which is the number of
\* clients selected for the round and at least 1, and the updates are
\* those of the selected clients in their order: none is dropped.
C28_UpdatesAndWeightsMatchSelection ==
    AtAggregation =>
        /\ Len(client_updates) = Len(client_weights)
        /\ Len(client_updates) = Len(selected_client_ids)
        /\ Len(client_updates) >= 1
        /\ \A i \in 1..Len(selected_client_ids) :
               client_updates[i] = clients[selected_client_ids[i]]

\* the aggregation is about to be called with the updates of three
\* selected clients
C28_Witness ==
    /\ pc = "train"
    /\ TrainLoopDone
    /\ Len(selected_client_ids) = 3
    /\ Len(client_weights) = 3

(* ================= one monitoring thread at a time (C29) ============== *)
\* C29: however calls of start() and stop() interleave, made by one
\* thread or by several at once, at most one monitoring thread is alive at
\* any time.
C29_AtMostOneMonitorThread ==
    Cardinality({t \in Threads : Alive(t)}) <= 1

(* ================= the best model of the trainer (C30) ================ *)
\* C30: after any sequence of train calls, best_val_loss is the smallest
\* validation loss of any epoch of any call, and best_model holds the
\* parameters as they were at the end of the epoch that reached that loss;
\* a file written by save_model holds these parameters too.
C30_BestModelIsSnapshotOfBestEpoch ==
    pc = "idle" =>
        /\ trainer.best_val_loss = Least(trainer.losses \cup {Inf})
        /\ trainer.best_model # NoBestModel =>
               heap[trainer.best_model] = trainer.best_params
====
